---- MODULE Spec2Model ----
(***************************************************************************)
(* A model of the conservative mark-and-sweep collector of gc.h            *)
(* (src/unnamed/part_000).                                                 *)
(*                                                                         *)
(* The arena is modelled as what it is: an array of pointer-sized words.   *)
(* Object headers, free-block headers and payloads all live in that array, *)
(* exactly where the C code puts them, so that a header written over an    *)
(* old payload, a stale word left in a freed span or two structures laid   *)
(* over each other are all visible.  Addresses are byte addresses; every   *)
(* structure access of the collector is word aligned.                      *)
(*                                                                         *)
(* Scaling.  size_t is WordBits wide (arithmetic is modulo WordMax), the   *)
(* arena holds HeapWords words instead of 1 MiB, the scanned stack holds   *)
(* StackWords words and the jmp_buf RegWords words.  Everything else       *)
(* (header sizes, alignment, threshold) has the program's value.           *)
(***************************************************************************)
EXTENDS Integers, Sequences, FiniteSets, TLC

\* ------------------------------------------------------------ bounds
WordBits == 9          \* width of size_t / uintptr_t in the model
HeapWords == 9         \* arena size in words (GC_HEAP_SIZE scaled down)
StackWords == 1        \* words between stack top and stack bottom
RegWords == 1          \* sizeof(jmp_buf) / sizeof(uintptr_t), scaled down
MaxAllocs == 3         \* cap on allocation_count (an unbounded int)
MaxCollections == 3    \* cap on collection_count (an unbounded int)
BigWords == 24         \* arena size in words of the larger build
BigAllocs == 6         \* cap on allocation_count in the larger build

\* ------------------------------------------------- program constants
GC_ALIGNMENT == 8
PtrSize == 8           \* sizeof(void*) = sizeof(uintptr_t) = sizeof(size_t)
HeaderSize == 24       \* sizeof(gc_object_t): size, marked (+padding), next
FreeHeaderSize == 16   \* sizeof(gc_free_block_t): size, next
ThresholdNum == 4      \* GC_THRESHOLD = 0.8 = ThresholdNum / ThresholdDen
ThresholdDen == 5
NULL == 0
HeapBase == 64         \* the address mmap returned (page aligned in the code)

WordMax == 2 ^ WordBits
GC_HEAP_SIZE == PtrSize * HeapWords

VARIABLES
    heap,              \* the arena's words: [0 .. HeapWords-1 -> word]
    heap_used,         \* gc_state.heap_used
    objects,           \* gc_state.objects: address of the first header, or NULL
    free_list,         \* gc_state.free_list: address of the first block, or NULL
    initialized,       \* gc_state.initialized
    collection_count,  \* gc_state.collection_count
    allocation_count,  \* gc_state.allocation_count
    stack,             \* the caller's words between stack top and stack bottom, as the
                       \* collection of the call in progress finds them
    registers,         \* gc_state.registers: the register contents setjmp saved
    pc,                \* where control is
    op,                \* the public call in progress
    arg,               \* its arguments
    size,              \* gc_malloc: size (after alignment)
    total_size,        \* gc_malloc: total_size
    ptr,               \* gc_malloc: ptr
    resume,            \* where gc_collect returns to
    old_obj,           \* gc_realloc: obj, the header found for ptr (NULL if none)
    acquires,          \* calls of gc_alloc_from_freelist made by the gc_malloc in progress
    entry,             \* the collector state when the public call in progress began
    result             \* the value the public call returned

gcvars == <<heap, heap_used, objects, free_list, initialized,
            collection_count, allocation_count>>
rootvars == <<stack, registers>>
callvars == <<pc, op, arg, size, total_size, ptr, resume, old_obj, acquires, entry, result>>
vars == <<heap, heap_used, objects, free_list, initialized, collection_count,
          allocation_count, stack, registers, pc, op, arg, size, total_size, ptr,
          resume, old_obj, acquires, entry, result>>

\* ------------------------------------------------------ memory access
\* gc_state.heap_size (line 127): the length of the mapping, and the
\* address gc_state.heap + gc_state.heap_size behind it
heap_size == PtrSize * Cardinality(DOMAIN heap)
HeapEnd == HeapBase + heap_size

Idx(a) == (a - HeapBase) \div PtrSize
Load(m, a) == m[Idx(a)]
Store(m, a, v) == [m EXCEPT ![Idx(a)] = v]

\* gc_object_t fields
ObjSize(m, o) == Load(m, o)
ObjMarked(m, o) == Load(m, o + PtrSize)
ObjNext(m, o) == Load(m, o + 2 * PtrSize)
ObjData(o) == o + HeaderSize
\* gc_free_block_t fields
BlkSize(m, b) == Load(m, b)
BlkNext(m, b) == Load(m, b + PtrSize)

\* (size + GC_ALIGNMENT - 1) & ~(GC_ALIGNMENT - 1), in size_t arithmetic
AlignUp(n) == LET s == (n + GC_ALIGNMENT - 1) % WordMax IN s - (s % GC_ALIGNMENT)

\* ------------------------------------------------------ pointer tests
gc_is_pointer(p) == p >= HeapBase /\ p < HeapEnd

\* (mutant of gc_is_valid_pointer: the alignment test is dropped)
gc_is_valid_pointer_any(v) == gc_is_pointer(v)

\* (mutant of gc_is_valid_pointer: half-word alignment is enough)
gc_is_valid_pointer_halfword(v) == v % (PtrSize \div 2) = 0 /\ gc_is_pointer(v)

gc_is_valid_pointer(v) == v % PtrSize = 0 /\ gc_is_pointer(v)

\* (mutant of FindFrom: the end of the payload counts as inside)
RECURSIVE FindFromInclusive(_, _, _)
FindFromInclusive(m, obj, p) ==
    IF obj = NULL THEN NULL
    ELSE IF p >= ObjData(obj) /\ p <= ObjData(obj) + ObjSize(m, obj) THEN obj
    ELSE FindFromInclusive(m, ObjNext(m, obj), p)

RECURSIVE FindFrom(_, _, _)
FindFrom(m, obj, p) ==
    IF obj = NULL THEN NULL
    ELSE IF p >= ObjData(obj) /\ p < ObjData(obj) + ObjSize(m, obj) THEN obj
    ELSE FindFrom(m, ObjNext(m, obj), p)

gc_find_object_containing(m, head, p) ==
    IF ~gc_is_pointer(p) THEN NULL ELSE FindFrom(m, head, p)

\* ------------------------------------------------------------- mark
RECURSIVE gc_mark_object(_, _, _), ScanPayload(_, _, _, _, _)
\* (mutant of gc_mark_object: the flag is set but the payload is not scanned)
gc_mark_object_shallow(m, head, p) ==
    IF ~gc_is_pointer(p) THEN m
    ELSE LET obj == gc_find_object_containing(m, head, p) IN
         IF obj = NULL THEN m
         ELSE IF ObjMarked(m, obj) # 0 THEN m
         ELSE Store(m, obj + PtrSize, 1)

\* (mutant of gc_mark_object: a second visit clears the flag again)
gc_mark_object_toggle(m, head, p) ==
    IF ~gc_is_pointer(p) THEN m
    ELSE LET obj == gc_find_object_containing(m, head, p) IN
         IF obj = NULL THEN m
         ELSE IF ObjMarked(m, obj) # 0 THEN Store(m, obj + PtrSize, 0)
         ELSE ScanPayload(Store(m, obj + PtrSize, 1), head, obj, 0,
                          ObjSize(m, obj) \div PtrSize)

gc_mark_object(m, head, p) ==
    IF ~gc_is_pointer(p) THEN m
    ELSE LET obj == gc_find_object_containing(m, head, p) IN
         IF obj = NULL THEN m
         ELSE IF ObjMarked(m, obj) # 0 THEN m
         ELSE ScanPayload(Store(m, obj + PtrSize, 1), head, obj, 0,
                          ObjSize(m, obj) \div PtrSize)

\* (mutant of ScanPayload: only the first word of a payload is looked at)
ScanPayloadFirstWord(m, head, obj, i, word_count) ==
    IF i >= word_count \/ i >= 1 THEN m
    ELSE LET v == Load(m, ObjData(obj) + i * PtrSize) IN
         IF gc_is_valid_pointer(v) THEN gc_mark_object(m, head, v) ELSE m

ScanPayload(m, head, obj, i, word_count) ==
    IF i >= word_count THEN m
    ELSE LET v == Load(m, ObjData(obj) + i * PtrSize) IN
         ScanPayload(IF gc_is_valid_pointer(v) THEN gc_mark_object(m, head, v) ELSE m,
                     head, obj, i + 1, word_count)

\* the scan of a sequence of root words, in order
RECURSIVE ScanWords(_, _, _, _)
ScanWords(m, head, words, i) ==
    IF i > Len(words) THEN m
    ELSE ScanWords(IF gc_is_valid_pointer(words[i])
                   THEN gc_mark_object(m, head, words[i]) ELSE m,
                   head, words, i + 1)

\* (mutant of gc_mark_roots: the register snapshot is not scanned)
gc_mark_roots_stack_only(m, head, stk, regs) == ScanWords(m, head, stk, 1)

gc_mark_roots(m, head, stk, regs) ==
    ScanWords(ScanWords(m, head, stk, 1), head, regs, 1)

\* ---------------------------------------------------------- free list
\* A C pointer-to-pointer (gc_free_block_t** / gc_object_t**) is a slot: NULL
\* stands for the address of the list head in gc_state, any other value is
\* the address of a next field inside the arena.
Deref(m, head, slot) == IF slot = NULL THEN head ELSE Load(m, slot)

RECURSIVE FindSlot(_, _, _, _)
FindSlot(m, fl, current, new_block) ==
    LET cur == Deref(m, fl, current) IN
    IF cur # NULL /\ cur < new_block
    THEN FindSlot(m, fl, cur + PtrSize, new_block)
    ELSE current

\* (mutant of gc_add_to_freelist: the size is recorded in the span before
\* the too-small test)
gc_add_to_freelist_stamped(m, fl, p, sz) ==
    LET m1 == Store(m, p, sz) IN
    IF sz < FreeHeaderSize THEN [heap |-> m1, free_list |-> fl]
    ELSE LET current == FindSlot(m1, fl, NULL, p)
             m2 == Store(m1, p + PtrSize, Deref(m1, fl, current))
         IN  IF current = NULL
             THEN [heap |-> m2, free_list |-> p]
             ELSE [heap |-> Store(m2, current, p), free_list |-> fl]

gc_add_to_freelist(m, fl, p, sz) ==
    IF sz < FreeHeaderSize THEN [heap |-> m, free_list |-> fl]
    ELSE LET m1 == Store(m, p, sz)
             current == FindSlot(m1, fl, NULL, p)
             m2 == Store(m1, p + PtrSize, Deref(m1, fl, current))
         IN  IF current = NULL
             THEN [heap |-> m2, free_list |-> p]
             ELSE [heap |-> Store(m2, current, p), free_list |-> fl]

\* (mutant of CoalesceFrom: the pass moves on after a merge instead of
\* looking at the same block again)
RECURSIVE CoalesceFromOnce(_, _)
CoalesceFromOnce(m, current) ==
    IF current = NULL \/ BlkNext(m, current) = NULL THEN m
    ELSE LET next == BlkNext(m, current) IN
         IF current + BlkSize(m, current) = next
         THEN CoalesceFromOnce(
                  Store(Store(m, current,
                              (BlkSize(m, current) + BlkSize(m, next)) % WordMax),
                        current + PtrSize, BlkNext(m, next)),
                  BlkNext(m, next))
         ELSE CoalesceFromOnce(m, next)

RECURSIVE CoalesceFrom(_, _)
CoalesceFrom(m, current) ==
    IF current = NULL \/ BlkNext(m, current) = NULL THEN m
    ELSE LET next == BlkNext(m, current) IN
         IF current + BlkSize(m, current) = next
         THEN CoalesceFrom(
                  Store(Store(m, current,
                              (BlkSize(m, current) + BlkSize(m, next)) % WordMax),
                        current + PtrSize, BlkNext(m, next)),
                  current)
         ELSE CoalesceFrom(m, next)

\* (mutant of gc_coalesce_freelist: neighbours are left unmerged)
gc_coalesce_freelist_none(m, fl) == m

gc_coalesce_freelist(m, fl) == IF fl = NULL THEN m ELSE CoalesceFrom(m, fl)

\* (mutant of SplitFits: a block is never split)
SplitFitsNever(block_size, sz) == FALSE

SplitFits(block_size, sz) ==
    block_size >= (sz + FreeHeaderSize + GC_ALIGNMENT) % WordMax

RECURSIVE AllocFrom(_, _, _, _)
AllocFrom(m, fl, current, sz) ==
    LET block == Deref(m, fl, current) IN
    IF block = NULL THEN [heap |-> m, free_list |-> fl, ptr |-> NULL]
    ELSE IF BlkSize(m, block) >= sz
    THEN IF SplitFits(BlkSize(m, block), sz)
         THEN LET new_block == block + sz
                  m1 == Store(m, new_block, BlkSize(m, block) - sz)
                  m2 == Store(m1, new_block + PtrSize, BlkNext(m1, block))
              IN  IF current = NULL
                  THEN [heap |-> m2, free_list |-> new_block, ptr |-> block]
                  ELSE [heap |-> Store(m2, current, new_block), free_list |-> fl,
                        ptr |-> block]
         ELSE IF current = NULL
              THEN [heap |-> m, free_list |-> BlkNext(m, block), ptr |-> block]
              ELSE [heap |-> Store(m, current, BlkNext(m, block)), free_list |-> fl,
                    ptr |-> block]
    ELSE AllocFrom(m, fl, block + PtrSize, sz)

\* (mutant of gc_alloc_from_freelist: a search that finds nothing drops the
\* list)
gc_alloc_from_freelist_drop(m, fl, sz) ==
    LET r == AllocFrom(m, fl, NULL, sz) IN
    IF r.ptr = NULL THEN [r EXCEPT !.free_list = NULL] ELSE r

gc_alloc_from_freelist(m, fl, sz) == AllocFrom(m, fl, NULL, sz)

\* ------------------------------------------------------------ sweep
\* (mutant of SweptSpan: the span released is one alignment unit too long)
SweptSpanLong(sz) == (HeaderSize + sz + GC_ALIGNMENT) % WordMax

\* line 421: size_t total_size = sizeof(gc_object_t) + obj->size
SweptSpan(sz) == (HeaderSize + sz) % WordMax

\* (mutant of UsedAfterSweep: only the payload is subtracted)
UsedAfterSweepPayload(used, total) == (used - (total - HeaderSize)) % WordMax

\* line 423: gc_state.heap_used -= total_size
UsedAfterSweep(used, total) == (used - total) % WordMax

\* (mutant of ResetMark: a survivor keeps its flag)
ResetMarkKept(m, o) == m

\* line 431: obj->marked = 0
ResetMark(m, o) == Store(m, o + PtrSize, 0)

\* (mutant of SweepFrom: the flag test is inverted)
RECURSIVE SweepFromInverted(_, _)
SweepFromInverted(st, curr) ==
    LET obj == Deref(st.heap, st.objects, curr) IN
    IF obj = NULL THEN st
    ELSE IF ObjMarked(st.heap, obj) # 0
    THEN LET next == ObjNext(st.heap, obj)
             unlinked == IF curr = NULL
                         THEN [st EXCEPT !.objects = next]
                         ELSE [st EXCEPT !.heap = Store(st.heap, curr, next)]
             total == SweptSpan(ObjSize(unlinked.heap, obj))
             fl == gc_add_to_freelist(unlinked.heap, unlinked.free_list, obj, total)
         IN  SweepFromInverted([unlinked EXCEPT !.heap = fl.heap,
                                                !.free_list = fl.free_list,
                                                !.heap_used = UsedAfterSweep(@, total)],
                               curr)
    ELSE SweepFromInverted([st EXCEPT !.heap = ResetMark(st.heap, obj)],
                           obj + 2 * PtrSize)

RECURSIVE SweepFrom(_, _)
SweepFrom(st, curr) ==
    LET obj == Deref(st.heap, st.objects, curr) IN
    IF obj = NULL THEN st
    ELSE IF ObjMarked(st.heap, obj) = 0
    THEN LET next == ObjNext(st.heap, obj)
             unlinked == IF curr = NULL
                         THEN [st EXCEPT !.objects = next]
                         ELSE [st EXCEPT !.heap = Store(st.heap, curr, next)]
             total == SweptSpan(ObjSize(unlinked.heap, obj))
             fl == gc_add_to_freelist(unlinked.heap, unlinked.free_list, obj, total)
         IN  SweepFrom([unlinked EXCEPT !.heap = fl.heap,
                                        !.free_list = fl.free_list,
                                        !.heap_used = UsedAfterSweep(@, total)],
                       curr)
    ELSE SweepFrom([st EXCEPT !.heap = ResetMark(st.heap, obj)],
                   obj + 2 * PtrSize)

gc_sweep(st) ==
    LET swept == SweepFrom(st, NULL) IN
    [swept EXCEPT !.heap = gc_coalesce_freelist(swept.heap, swept.free_list)]

\* ----------------------------------------------------- collector state
GcState == [heap |-> heap, heap_used |-> heap_used, objects |-> objects,
            free_list |-> free_list, initialized |-> initialized,
            collection_count |-> collection_count,
            allocation_count |-> allocation_count]

SetGcState(st) ==
    /\ heap' = st.heap
    /\ heap_used' = st.heap_used
    /\ objects' = st.objects
    /\ free_list' = st.free_list
    /\ initialized' = st.initialized
    /\ collection_count' = st.collection_count
    /\ allocation_count' = st.allocation_count

\* static struct {...} gc_state = {0}; the arena is not mapped yet
ZeroState == [heap |-> [i \in 0 .. HeapWords - 1 |-> 0], heap_used |-> 0,
              objects |-> NULL, free_list |-> NULL, initialized |-> 0,
              collection_count |-> 0, allocation_count |-> 0]

\* (mutant of gc_init: the initialized flag is not consulted)
gc_init_again(st) ==
    [heap |-> Store(Store([i \in 0 .. HeapWords - 1 |-> 0], HeapBase, GC_HEAP_SIZE),
                    HeapBase + PtrSize, NULL),
     heap_used |-> 0, objects |-> NULL, free_list |-> HeapBase,
     initialized |-> 1, collection_count |-> 0, allocation_count |-> 0]

\* gc_init with a successful mmap (fresh anonymous pages read as zero)
gc_init(st) ==
    IF st.initialized # 0 THEN st
    ELSE [heap |-> Store(Store([i \in 0 .. HeapWords - 1 |-> 0],
                               HeapBase, GC_HEAP_SIZE),
                         HeapBase + PtrSize, NULL),
          heap_used |-> 0, objects |-> NULL, free_list |-> HeapBase,
          initialized |-> 1, collection_count |-> 0, allocation_count |-> 0]

\* ------------------------------------------------------ the registry
\* a header of n bytes at address a lies inside the mapping
Readable(a, n) == HeapBase <= a /\ a + n <= HeapEnd

\* the chain of headers from o, as far as the links stay inside the mapping
RECURSIVE ObjectsFrom(_, _, _)
ObjectsFrom(m, o, fuel) ==
    IF o = NULL \/ fuel = 0 \/ ~Readable(o, HeaderSize) THEN <<>>
    ELSE <<o>> \o ObjectsFrom(m, ObjNext(m, o), fuel - 1)

\* the registered headers, head first
Registry(m, head) == ObjectsFrom(m, head, Cardinality(DOMAIN m))
Registered(m, head) ==
    LET reg == Registry(m, head) IN {reg[i] : i \in 1 .. Len(reg)}

RECURSIVE BlocksFrom(_, _, _)
BlocksFrom(m, b, fuel) ==
    IF b = NULL \/ fuel = 0 \/ ~Readable(b, FreeHeaderSize) THEN <<>>
    ELSE <<b>> \o BlocksFrom(m, BlkNext(m, b), fuel - 1)

\* the free blocks, head first
FreeBlocks(m, fl) == BlocksFrom(m, fl, Cardinality(DOMAIN m))

\* ----------------------------------------------------- the mutator
\* Words the program stores into payloads: NULL and payload addresses of
\* registered objects (the first word, and the second where there is one).
WordValues ==
    LET live == Registered(heap, objects) IN
    {NULL}
    \cup {ObjData(o) : o \in live}
    \cup {ObjData(o) + PtrSize : o \in {x \in live : ObjSize(heap, x) >= 2 * PtrSize}}

\* Words the stack and the registers may hold: the same, and a misaligned
\* address inside the arena.
Unaligned == HeapBase + HeaderSize + 1
RootValues == WordValues \cup {Unaligned}
NoRoots(n) == [i \in 1 .. n |-> NULL]

\* the addresses of the payload words of the registered objects
PayloadWords ==
    UNION {{ObjData(o) + i * PtrSize : i \in 0 .. (ObjSize(heap, o) \div PtrSize) - 1} :
             o \in Registered(heap, objects)}

StorePayload(a, v) ==
    /\ pc = "idle"
    /\ heap' = Store(heap, a, v)
    /\ UNCHANGED <<heap_used, objects, free_list, initialized, collection_count,
                   allocation_count, rootvars, callvars>>

\* ------------------------------------------------------- call frames
NoEntry == ZeroState

\* the request sizes tried: small ones around the alignment unit, one larger
\* than the arena, and two near the top of the size_t range
Sizes == {0, 1, 16, WordMax - 2 * PtrSize, WordMax - 1}

\* The words between stack top and stack bottom during a collection: the
\* frame of gc_realloc (its parameter ptr, spilled by the -O0 build of
\* the Makefile) lies above the caller's words.
ScannedStack(stk) == (IF op = "realloc" THEN <<arg[1]>> ELSE <<>>) \o stk

OverThreshold(used, total) ==
    ((used + total) % WordMax) * ThresholdDen > heap_size * ThresholdNum

\* line 514: size_t total_size = sizeof(gc_object_t) + size
TotalSize(sz) == (HeaderSize + sz) % WordMax

\* gc_malloc, lines 499-524: implicit init, alignment, threshold test
MallocBegin(n) ==
    /\ SetGcState(gc_init(GcState))
    /\ size' = AlignUp(n)
    /\ total_size' = TotalSize(AlignUp(n))
    /\ ptr' = NULL
    /\ acquires' = 0
    /\ resume' = "acquire"
    /\ pc' = IF OverThreshold(heap_used, TotalSize(AlignUp(n)))
             THEN "mark" ELSE "acquire"

\* the caps on the two counters: a call may make one allocation and two
\* collections; the larger arena is explored for more allocations
AllocCap == IF heap_size = GC_HEAP_SIZE THEN MaxAllocs ELSE BigAllocs

CanAllocate ==
    /\ allocation_count < AllocCap
    /\ collection_count + 2 <= MaxCollections

\* the value gc_malloc returns goes to its caller
MallocReturn(v) ==
    IF op = "realloc" /\ old_obj # NULL /\ v # NULL
    THEN pc' = "copy" /\ result' = NULL
    ELSE pc' = "return" /\ result' = v

\* ---------------------------------------------------------- startup
Init ==
    /\ heap = ZeroState.heap
    /\ heap_used = 0
    /\ objects = NULL
    /\ free_list = NULL
    /\ initialized = 0
    /\ collection_count = 0
    /\ allocation_count = 0
    /\ stack = NoRoots(StackWords)
    /\ registers = NoRoots(RegWords)
    /\ pc = "start"
    /\ op = "none"
    /\ arg = <<>>
    /\ size = 0
    /\ total_size = 0
    /\ ptr = NULL
    /\ resume = "none"
    /\ old_obj = NULL
    /\ acquires = 0
    /\ entry = NoEntry
    /\ result = NULL

\* gc_init_constructor: runs before main; mmap either succeeds or fails
gc_init_constructor ==
    /\ pc = "start"
    /\ \/ /\ SetGcState(gc_init(GcState))
          /\ pc' = "idle"
       \/ /\ UNCHANGED gcvars
          /\ pc' = "exited"
    /\ UNCHANGED <<rootvars, op, arg, size, total_size, ptr, resume, old_obj,
                   acquires, entry, result>>

\* ------------------------------------------------------ gc_collect
\* gc_collect up to the end of gc_mark_roots.  What the program left on its
\* stack and in its registers is not constrained between calls: the words
\* are drawn when the first collection of a call reads them, and stay as
\* they are for a second collection in the same call.
GcMark ==
    /\ pc = "mark"
    /\ IF initialized = 0
       THEN /\ pc' = resume
            /\ UNCHANGED <<heap, rootvars>>
       ELSE /\ pc' = "sweep"
            /\ IF collection_count = entry.collection_count
               THEN /\ stack' \in [1 .. StackWords -> RootValues]
                    /\ registers' \in [1 .. RegWords -> RootValues]
               ELSE UNCHANGED rootvars
            /\ heap' = gc_mark_roots(heap, objects, ScannedStack(stack'), registers')
    /\ UNCHANGED <<heap_used, objects, free_list, initialized, collection_count,
                   allocation_count, op, arg, size, total_size, ptr,
                   resume, old_obj, acquires, entry, result>>

GcSweep ==
    /\ pc = "sweep"
    /\ LET swept == gc_sweep(GcState) IN
       SetGcState([swept EXCEPT !.collection_count = @ + 1])
    /\ pc' = resume
    /\ UNCHANGED <<rootvars, op, arg, size, total_size, ptr, resume, old_obj,
                   acquires, entry, result>>

\* ------------------------------------------------------- gc_malloc
gc_malloc(n) ==
    /\ pc = "idle"
    /\ CanAllocate
    /\ op' = "malloc"
    /\ arg' = <<n>>
    /\ old_obj' = NULL
    /\ entry' = GcState
    /\ MallocBegin(n)
    /\ UNCHANGED <<rootvars, result>>

\* (mutant of Zero: the payload is left as it was found)
ZeroNone(m, a, n) == m

\* memset(a, 0, n) as far as the arena reaches
Zero(m, a, n) ==
    [i \in DOMAIN m |-> IF i >= Idx(a) /\ i < Idx(a + n) THEN 0 ELSE m[i]]

\* lines 542-553: header, registry link, counters, memset
InitObject(st, p, sz, total) ==
    LET m1 == Store(st.heap, p, sz)
        m2 == Store(m1, p + PtrSize, 0)
        m3 == Store(m2, p + 2 * PtrSize, st.objects)
    IN  [st EXCEPT !.heap = Zero(m3, ObjData(p), sz),
                   !.objects = p,
                   !.heap_used = (@ + total) % WordMax,
                   !.allocation_count = @ + 1]

\* (mutant of AcquireMissed: the first miss already gives up)
AcquireMissedGiveUp == MallocReturn(NULL) /\ UNCHANGED resume

\* lines 529-540: the acquisition found no block.  After the first attempt
\* a collection runs and control comes back at line 533; after the second
\* gc_malloc returns NULL.
AcquireMissed ==
    IF pc = "acquire"
    THEN pc' = "mark" /\ resume' = "retry" /\ UNCHANGED result
    ELSE MallocReturn(NULL) /\ UNCHANGED resume

\* lines 526-558: the acquisition at line 527 (pc = "acquire") or the one
\* at line 533 (pc = "retry"), and what follows it.  A memset that runs off
\* the end of the mapping faults.
MallocAcquire ==
    /\ pc \in {"acquire", "retry"}
    /\ acquires' = acquires + 1
    /\ LET r == gc_alloc_from_freelist(heap, free_list, total_size)
           got == [GcState EXCEPT !.heap = r.heap, !.free_list = r.free_list]
       IN  /\ ptr' = r.ptr
           /\ IF r.ptr # NULL
              THEN /\ SetGcState(InitObject(got, r.ptr, size, total_size))
                   /\ UNCHANGED resume
                   /\ IF ObjData(r.ptr) + size <= HeapEnd
                      THEN MallocReturn(ObjData(r.ptr))
                      ELSE pc' = "crashed" /\ UNCHANGED result
              ELSE /\ SetGcState(got)
                   /\ AcquireMissed
    /\ UNCHANGED <<rootvars, op, arg, size, total_size, old_obj, entry>>

\* ------------------------------------------------------- gc_calloc
\* (mutant of gc_calloc: a product that overflows is clamped to SIZE_MAX)
gc_calloc_clamped(num, sz) ==
    /\ pc = "idle"
    /\ CanAllocate
    /\ op' = "calloc"
    /\ arg' = <<num, sz>>
    /\ old_obj' = NULL
    /\ entry' = GcState
    /\ MallocBegin(IF num * sz >= WordMax THEN WordMax - 1 ELSE num * sz)
    /\ UNCHANGED <<rootvars, result>>

gc_calloc(num, sz) ==
    /\ pc = "idle"
    /\ CanAllocate
    /\ op' = "calloc"
    /\ arg' = <<num, sz>>
    /\ old_obj' = NULL
    /\ entry' = GcState
    /\ MallocBegin((num * sz) % WordMax)
    /\ UNCHANGED <<rootvars, result>>

\* ------------------------------------------------------ gc_realloc
\* lines 581-587: the header whose payload starts exactly at p
RECURSIVE FindExact(_, _, _)
FindExact(m, curr, p) ==
    IF curr = NULL THEN NULL
    ELSE IF ObjData(curr) = p THEN curr
    ELSE FindExact(m, ObjNext(m, curr), p)

\* lines 568-603, up to the call of gc_malloc or an early return.  (The
\* closing brace of the shrink-in-place branch is missing in the source; the
\* function is modelled as its indentation and comments lay it out.)
\* (mutant of ReallocPath: a request that fits exactly is not served in place)
ReallocPathStrict(m, p, new_size, found) ==
    IF p = NULL THEN "malloc"
    ELSE IF new_size = 0 THEN "none"
    ELSE IF found = NULL THEN "malloc"
    ELSE IF AlignUp(new_size) < ObjSize(m, found) THEN "same"
    ELSE "grow"

\* (mutant of ReallocPath: new_size = 0 is not singled out)
ReallocPathNoZero(m, p, new_size, found) ==
    IF p = NULL THEN "malloc"
    ELSE IF found = NULL THEN "malloc"
    ELSE IF AlignUp(new_size) <= ObjSize(m, found) THEN "same"
    ELSE "grow"

\* (mutant of ReallocPath: a pointer that is no payload start is refused)
ReallocPathRefuse(m, p, new_size, found) ==
    IF p = NULL THEN "malloc"
    ELSE IF new_size = 0 THEN "none"
    ELSE IF found = NULL THEN "none"
    ELSE IF AlignUp(new_size) <= ObjSize(m, found) THEN "same"
    ELSE "grow"

\* the branch gc_realloc takes, lines 571-602; found is the header the
\* search of lines 581-587 ended with
ReallocPath(m, p, new_size, found) ==
    IF p = NULL THEN "malloc"
    ELSE IF new_size = 0 THEN "none"
    ELSE IF found = NULL THEN "malloc"
    ELSE IF AlignUp(new_size) <= ObjSize(m, found) THEN "same"
    ELSE "grow"

gc_realloc(p, new_size) ==
    /\ pc = "idle"
    /\ op' = "realloc"
    /\ arg' = <<p, new_size>>
    /\ entry' = GcState
    /\ LET found == FindExact(heap, objects, p)
           path == ReallocPath(heap, p, new_size, found)
           early(v) == /\ pc' = "return"
                       /\ result' = v
                       /\ old_obj' = NULL
                       /\ UNCHANGED <<gcvars, size, total_size, ptr, resume, acquires>>
           fresh(o) == /\ CanAllocate
                       /\ old_obj' = o
                       /\ MallocBegin(new_size)
                       /\ UNCHANGED result
       IN  CASE path = "malloc" -> fresh(NULL)
             [] path = "none" -> early(NULL)
             [] path = "same" -> early(p)
             [] path = "grow" -> fresh(found)
    /\ UNCHANGED rootvars

\* memcpy(dst, src, n), one word after the other from the low end
RECURSIVE CopyForward(_, _, _, _)
CopyForward(m, dst, src, n) ==
    IF n = 0 THEN m
    ELSE CopyForward(Store(m, dst, Load(m, src)), dst + PtrSize, src + PtrSize,
                     n - PtrSize)

\* memcpy(dst, src, n) reading every source word before any is overwritten
CopyAtOnce(m, dst, src, n) ==
    [i \in DOMAIN m |-> IF i >= Idx(dst) /\ i < Idx(dst + n)
                        THEN m[i - Idx(dst) + Idx(src)] ELSE m[i]]

\* lines 604-612: the copy after a successful gc_malloc.  obj->size is read
\* now, through a pointer that dangles if the old object was swept meanwhile;
\* a copy that leaves the mapping faults, one whose ranges overlap is
\* undefined and may come out either way.
ReallocCopy ==
    /\ pc = "copy"
    /\ LET new_ptr == ObjData(ptr)
           n == ObjSize(heap, old_obj)
       IN  IF arg[1] + n <= HeapEnd /\ new_ptr + n <= HeapEnd
           THEN /\ heap' \in {CopyForward(heap, new_ptr, arg[1], n),
                              CopyAtOnce(heap, new_ptr, arg[1], n)}
                /\ pc' = "return"
                /\ result' = new_ptr
           ELSE /\ heap' = heap
                /\ pc' = "crashed"
                /\ UNCHANGED result
    /\ UNCHANGED <<heap_used, objects, free_list, initialized, collection_count,
                   allocation_count, rootvars, op, arg, size, total_size, ptr,
                   resume, old_obj, acquires, entry>>

\* --------------------------------------------- gc_free, gc_force_collect
\* (mutant of gc_free: the call runs a collection)
gc_free_collects(p) ==
    /\ pc = "idle"
    /\ op' = "free"
    /\ arg' = <<p>>
    /\ entry' = GcState
    /\ pc' = "mark"
    /\ resume' = "return"
    /\ UNCHANGED <<gcvars, rootvars, size, total_size, ptr, old_obj, acquires,
                   result>>

gc_free(p) ==
    /\ pc = "idle"
    /\ op' = "free"
    /\ arg' = <<p>>
    /\ entry' = GcState
    /\ pc' = "return"
    /\ UNCHANGED <<gcvars, rootvars, size, total_size, ptr, resume, old_obj,
                   acquires, result>>

\* (mutant of gc_force_collect: it collects only above the threshold)
gc_force_collect_lazy ==
    /\ pc = "idle"
    /\ collection_count < MaxCollections
    /\ op' = "force_collect"
    /\ arg' = <<>>
    /\ entry' = GcState
    /\ pc' = IF OverThreshold(heap_used, 0) THEN "mark" ELSE "return"
    /\ resume' = "return"
    /\ UNCHANGED <<gcvars, rootvars, size, total_size, ptr, old_obj, acquires,
                   result>>

gc_force_collect ==
    /\ pc = "idle"
    /\ collection_count < MaxCollections
    /\ op' = "force_collect"
    /\ arg' = <<>>
    /\ entry' = GcState
    /\ pc' = "mark"
    /\ resume' = "return"
    /\ UNCHANGED <<gcvars, rootvars, size, total_size, ptr, old_obj, acquires,
                   result>>

\* the public call has returned; its frame is gone
Return ==
    /\ pc = "return"
    /\ pc' = "idle"
    /\ op' = "none"
    /\ arg' = <<>>
    /\ size' = 0
    /\ total_size' = 0
    /\ ptr' = NULL
    /\ resume' = "none"
    /\ old_obj' = NULL
    /\ acquires' = 0
    /\ entry' = NoEntry
    /\ result' = NULL
    /\ stack' = NoRoots(StackWords)
    /\ registers' = NoRoots(RegWords)
    /\ UNCHANGED gcvars

\* ------------------------------------------------------------- Next
CallocArgs == {<<2, 4>>, <<WordMax \div GC_ALIGNMENT + 1, 8>>}
ReallocSizes == {0, 9}
\* the pointers gc_realloc and gc_free are called with: NULL, payload
\* starts, interior and misaligned addresses, and the address of the first
\* payload ever handed out, stale once its object is swept
CallPtrs == RootValues \cup {HeapBase + HeaderSize}

Next ==
    \/ gc_init_constructor
    \/ \E n \in Sizes : gc_malloc(n)
    \/ \E a \in CallocArgs : gc_calloc(a[1], a[2])
    \/ \E p \in CallPtrs, n \in ReallocSizes : gc_realloc(p, n)
    \/ \E p \in CallPtrs : gc_free(p)
    \/ gc_force_collect
    \/ GcMark
    \/ GcSweep
    \/ MallocAcquire
    \/ ReallocCopy
    \/ Return
    \/ \E a \in PayloadWords, v \in WordValues : StorePayload(a, v)

Spec == Init /\ [][Next]_vars

\* =====================================================================
\* Properties
\* =====================================================================
\* between two public calls: before a call is made, or when one has returned
AtRest == pc \in {"idle", "return"}

SeqToSet(q) == {q[i] : i \in 1 .. Len(q)}

RECURSIVE SumSpans(_, _)
SumSpans(m, reg) ==
    IF reg = <<>> THEN 0
    ELSE HeaderSize + ObjSize(m, Head(reg)) + SumSpans(m, Tail(reg))

\* the bytes [lo, hi) of a registered object (header and payload) and of a
\* free block
ObjRange(m, o) == [lo |-> o, hi |-> o + HeaderSize + ObjSize(m, o)]
BlkRange(m, b) == [lo |-> b, hi |-> b + BlkSize(m, b)]
Disjoint(r1, r2) == r1.hi <= r2.lo \/ r2.hi <= r1.lo

\* C1: between public calls heap_used is the sum of header size + payload
\* size over the registered objects.
C1_UsageAccounting ==
    AtRest => heap_used = SumSpans(heap, Registry(heap, objects))

\* C1 witness: a collection has returned that freed one object and kept another
C1_Witness ==
    /\ pc = "return"
    /\ op = "force_collect"
    /\ heap_used > 0
    /\ heap_used < entry.heap_used

\* C2: between public calls the spans of any two registered objects are
\* disjoint, and no registered object's span meets a free block.
C2_NoOverlap ==
    AtRest =>
        LET reg == Registry(heap, objects)
            blocks == FreeBlocks(heap, free_list)
        IN  /\ \A i, j \in 1 .. Len(reg) :
                  i # j => Disjoint(ObjRange(heap, reg[i]), ObjRange(heap, reg[j]))
            /\ \A i \in 1 .. Len(reg), k \in 1 .. Len(blocks) :
                  Disjoint(ObjRange(heap, reg[i]), BlkRange(heap, blocks[k]))

\* C2 witness: two objects and a free block, after memory was swept and
\* handed out again
C2_Witness ==
    /\ pc = "idle"
    /\ Len(Registry(heap, objects)) >= 2
    /\ free_list # NULL
    /\ collection_count >= 1
    /\ allocation_count >= 3

\* ------------------------------------------------------- reachability
\* Reachability as the specification states it, written without the
\* collector's own operators: a candidate is an aligned word inside the
\* arena; it refers to the object whose payload range [data, data+size)
\* holds it.
Cand(v) == v % PtrSize = 0 /\ HeapBase <= v /\ v < HeapEnd

Targets(m, objs, v) ==
    {o \in objs : Cand(v) /\ o + HeaderSize <= v /\ v < o + HeaderSize + Load(m, o)}

PayloadAddrs(m, o) ==
    {o + HeaderSize + i * PtrSize : i \in 0 .. (Load(m, o) \div PtrSize) - 1}

RECURSIVE Closure(_, _, _)
Closure(m, objs, set) ==
    LET vals == UNION {{Load(m, a) : a \in PayloadAddrs(m, o)} : o \in set}
        more == set \cup UNION {Targets(m, objs, v) : v \in vals}
    IN  IF more = set THEN set ELSE Closure(m, objs, more)

\* the objects of registry head reachable in memory m from the root words
Reach(m, head, words) ==
    LET objs == Registered(m, head) IN
    Closure(m, objs, UNION {Targets(m, objs, w) : w \in words})

\* the words the collection of the call in progress scanned as roots
RootWords == SeqToSet(ScannedStack(stack)) \cup SeqToSet(registers)

SamePayload(m1, m2, o) ==
    /\ Load(m1, o) = Load(m2, o)
    /\ \A a \in PayloadAddrs(m1, o) : Load(m1, a) = Load(m2, a)

ForceCollectReturned == pc = "return" /\ op = "force_collect"

C4_UnreachableReclaimed ==
    ForceCollectReturned =>
        \A x \in Registered(entry.heap, entry.objects)
                  \ Reach(entry.heap, entry.objects, RootWords) :
            /\ x \notin Registered(heap, objects)
            /\ heap_used <= entry.heap_used - (HeaderSize + Load(entry.heap, x))

\* C4 witness: force-collect returned; an object was unreachable although a
\* misaligned root word lay inside its payload, and another object stayed
C4_Witness ==
    /\ ForceCollectReturned
    /\ \E x \in Registered(entry.heap, entry.objects) :
           /\ x \notin Reach(entry.heap, entry.objects, RootWords)
           /\ \E w \in RootWords : x + HeaderSize < w /\ w < x + HeaderSize + Load(entry.heap, x)
    /\ objects # NULL

\* --------------------------------------------------- arena coverage
\* how many registered spans and free blocks of collector state st hold the
\* word at address a
Owners(st, a) ==
    LET reg == Registry(st.heap, st.objects)
        blocks == FreeBlocks(st.heap, st.free_list)
        in(r) == r.lo <= a /\ a < r.hi
    IN  Cardinality({i \in 1 .. Len(reg) : in(ObjRange(st.heap, reg[i]))})
        + Cardinality({k \in 1 .. Len(blocks) : in(BlkRange(st.heap, blocks[k]))})

ArenaWords == {HeapBase + i * PtrSize : i \in DOMAIN heap}

\* every word has at most one owner, and no FreeHeaderSize consecutive bytes
\* are without one
Partitioned(st) ==
    /\ \A a \in ArenaWords : Owners(st, a) <= 1
    /\ \A a \in ArenaWords :
          a + FreeHeaderSize <= HeapEnd =>
              \E b \in {a + i * PtrSize : i \in 0 .. (FreeHeaderSize \div PtrSize) - 1} :
                  Owners(st, b) = 1

\* C5: between public calls every byte of the arena lies in exactly one
\* registered span or free block, or in an unaccounted run shorter than a
\* free-block header: no FreeHeaderSize consecutive bytes are unaccounted.
C5_ArenaPartition ==
    (AtRest /\ initialized # 0) => Partitioned(GcState)

\* C6: between public calls the free list is strictly ascending by address
\* and no free block ends where another free block starts.
C6_SortedNonAdjacent ==
    AtRest =>
        LET blocks == FreeBlocks(heap, free_list) IN
        /\ \A k \in 1 .. Len(blocks) - 1 : blocks[k] < blocks[k + 1]
        /\ \A j, k \in 1 .. Len(blocks) :
              blocks[j] + BlkSize(heap, blocks[j]) # blocks[k]

\* C6 witness: a collection has returned that released two spans next to
\* each other or next to a free block, and the list has two blocks
C6_Witness ==
    /\ pc = "return"
    /\ collection_count > entry.collection_count
    /\ Len(FreeBlocks(heap, free_list)) >= 2
    /\ Len(Registry(entry.heap, entry.objects)) >= Len(Registry(heap, objects)) + 2

\* C7: a registered object's mark flag is set only between the mark phase
\* and the end of the sweep of one collection; everywhere else, and so
\* between public calls, every flag is clear.
C7_MarksClear ==
    \A o \in Registered(heap, objects) : ObjMarked(heap, o) # 0 => pc = "sweep"

\* C7 witness: an allocation has returned after a collection it ran itself,
\* with an object in the registry that the collection had marked
C7_Witness ==
    /\ pc = "return"
    /\ op = "malloc"
    /\ result # NULL
    /\ collection_count > entry.collection_count
    /\ Len(Registry(heap, objects)) >= 2

\* ------------------------------------------------ the allocation path
\* a gc_malloc is in progress or has returned (called directly, or by
\* gc_calloc or gc_realloc) and has not faulted
InMalloc ==
    /\ op \in {"malloc", "calloc", "realloc"}
    /\ pc \in {"mark", "sweep", "acquire", "retry", "copy", "return"}
    /\ (op = "realloc" /\ pc = "return") => acquires > 0

\* collections completed since the public call began
CollectionsRun == collection_count - entry.collection_count

\* C8: when gc_malloc is called with heap_used + (header size + aligned
\* size) above 80% of the arena, a collection has completed and the counter
\* has gone up when the first acquisition is about to be made.
C8_ThresholdCollects ==
    (InMalloc /\ pc = "acquire"
     /\ ThresholdDen * (entry.heap_used + HeaderSize + size) > ThresholdNum * heap_size)
        => CollectionsRun = 1

\* the collection gc_malloc ran before its first acquisition, if any: the
\* test of line 520 on the state at the call
Early ==
    IF ThresholdDen * ((entry.heap_used + total_size) % WordMax)
           > ThresholdNum * heap_size
    THEN 1 ELSE 0

\* C9: one gc_malloc makes at most two acquisitions and runs at most two
\* collections; a second acquisition is made only after exactly one
\* collection that followed the first miss, and NULL is returned only
\* after that second acquisition.
C9_RetryOnce ==
    InMalloc =>
        /\ acquires <= 2
        /\ CollectionsRun <= 2
        /\ pc = "acquire" => acquires = 0 /\ CollectionsRun = Early
        /\ pc = "retry" => acquires = 1 /\ ptr = NULL /\ CollectionsRun = Early + 1
        /\ acquires = 2 => CollectionsRun = Early + 1
        /\ (pc \in {"copy", "return"} /\ acquires = 1) => ptr # NULL /\ CollectionsRun = Early
        /\ (pc = "return" /\ ptr = NULL) => acquires = 2 /\ result = NULL

\* C9 witness: the first acquisition missed, one more collection ran, the
\* retry missed too and gc_malloc has returned NULL
C9_Witness ==
    /\ InMalloc
    /\ pc = "return"
    /\ acquires = 2
    /\ result = NULL
    /\ CollectionsRun = Early + 1

\* ------------------------------------------------------ out of memory
\* one gc_collect on collector state st with the roots of the call in progress
CollectOnce(st) ==
    LET marked == [st EXCEPT !.heap = gc_mark_roots(st.heap, st.objects,
                                                    ScannedStack(stack), registers)]
    IN  [gc_sweep(marked) EXCEPT !.collection_count = @ + 1]

RECURSIVE CollectTimes(_, _)
CollectTimes(st, k) == IF k = 0 THEN st ELSE CollectTimes(CollectOnce(st), k - 1)

\* the retry of line 533 has found no block either
RetryMissed == InMalloc /\ acquires = 2 /\ ptr = NULL

\* C10: when the retry finds no block, gc_malloc has returned NULL and the
\* process runs on; the collector state is the state at the call with the
\* collections of the call applied and nothing else: no object was added,
\* allocation_count is as it was, heap_used is the sum of the spans of the
\* survivors, every reachable object is registered with its payload
\* unchanged, spans and free blocks do not overlap and the free list is
\* sorted and coalesced; an arena that was partitioned at the call still is.
C10_OutOfMemory ==
    RetryMissed =>
        /\ pc = "return"
        /\ result = NULL
        /\ GcState = CollectTimes(entry, CollectionsRun)
        /\ Registered(heap, objects) \subseteq Registered(entry.heap, entry.objects)
        /\ allocation_count = entry.allocation_count
        /\ \A o \in Reach(entry.heap, entry.objects, RootWords) :
              /\ o \in Registered(heap, objects)
              /\ SamePayload(entry.heap, heap, o)
        /\ C1_UsageAccounting
        /\ C2_NoOverlap
        /\ C6_SortedNonAdjacent
        /\ Partitioned(entry) => Partitioned(GcState)

\* C10 witness: gc_malloc has returned NULL after two collections of its
\* own, with two objects reachable at the call
C10_Witness ==
    /\ RetryMissed
    /\ pc = "return"
    /\ Cardinality(Reach(entry.heap, entry.objects, RootWords)) >= 2
    /\ CollectionsRun = 2

\* ------------------------------------------------------- allocation
\* gc_malloc has just returned a payload address: to the program (gc_malloc,
\* gc_calloc, a gc_realloc that took an object for nothing to copy from) or
\* to gc_realloc before its memcpy
MallocSucceeded ==
    \/ pc = "copy"
    \/ /\ pc = "return"
       /\ op \in {"malloc", "calloc", "realloc"}
       /\ acquires > 0
       /\ old_obj = NULL
       /\ result # NULL

\* C11: the payload a successful gc_malloc (and so gc_calloc) hands out is
\* zero over its whole aligned size, whatever the span held before.
C11_PayloadZeroed ==
    MallocSucceeded =>
        /\ ObjData(objects) = (IF pc = "copy" THEN ObjData(ptr) ELSE result)
        /\ ObjSize(heap, objects) = size
        /\ \A a \in PayloadAddrs(heap, objects) : Load(heap, a) = 0

\* C11 witness: an allocation has returned a payload in which a word was
\* not zero when the call was made (a stale header field or payload word)
C11_Witness ==
    /\ MallocSucceeded
    /\ pc = "return"
    /\ \E a \in PayloadAddrs(heap, objects) : Load(entry.heap, a) # 0

\* --------------------------------------------- gc_malloc as a function
\* gc_collect on collector state st with root words stk and regs
GcCollect(st, stk, regs) ==
    IF st.initialized = 0 THEN st
    ELSE LET marked == [st EXCEPT !.heap = gc_mark_roots(st.heap, st.objects, stk, regs)]
         IN  [gc_sweep(marked) EXCEPT !.collection_count = @ + 1]

\* gc_malloc(n), lines 499-559, from collector state st0 when every
\* collection it runs finds the root words stk and regs: the state it
\* leaves, the value it returns, and whether its memset faulted instead
MallocOutcome(st0, n, stk, regs) ==
    LET st == gc_init(st0)
        sz == AlignUp(n)
        total == TotalSize(sz)
        st1 == IF OverThreshold(st.heap_used, total) THEN GcCollect(st, stk, regs) ELSE st
        r1 == gc_alloc_from_freelist(st1.heap, st1.free_list, total)
        got1 == [st1 EXCEPT !.heap = r1.heap, !.free_list = r1.free_list]
        st2 == GcCollect(got1, stk, regs)
        r2 == gc_alloc_from_freelist(st2.heap, st2.free_list, total)
        got2 == [st2 EXCEPT !.heap = r2.heap, !.free_list = r2.free_list]
        made(got, p) == [state |-> InitObject(got, p, sz, total),
                         result |-> IF ObjData(p) + sz <= HeapEnd THEN ObjData(p) ELSE NULL,
                         fault |-> ObjData(p) + sz > HeapEnd]
    IN  IF r1.ptr # NULL THEN made(got1, r1.ptr)
        ELSE IF r2.ptr # NULL THEN made(got2, r2.ptr)
        ELSE [state |-> got2, result |-> NULL, fault |-> FALSE]

\* what the call in progress has left: state, returned value, fault
Outcome == [state |-> GcState, result |-> result, fault |-> pc = "crashed"]

CallEnded == pc \in {"return", "crashed"}

\* C12: gc_calloc(count, size) returns what gc_malloc(count * size mod 2^w)
\* returns and leaves the state it leaves; the product is not checked for
\* overflow.
C12_CallocIsMalloc ==
    /\ (CallEnded /\ op = "malloc") =>
           Outcome = MallocOutcome(entry, arg[1], ScannedStack(stack), registers)
    /\ (CallEnded /\ op = "calloc") =>
           Outcome = MallocOutcome(entry, (arg[1] * arg[2]) % WordMax,
                                   ScannedStack(stack), registers)

\* C12 witness: gc_calloc has succeeded with a product that overflowed; the
\* payload is smaller than count * size
C12_Witness ==
    /\ pc = "return"
    /\ op = "calloc"
    /\ result # NULL
    /\ arg[1] * arg[2] >= WordMax
    /\ ObjSize(heap, objects) < arg[1] * arg[2]
    /\ collection_count > entry.collection_count

\* ------------------------------------------------------- gc_realloc
\* gc_realloc found the header of ptr and its size too small (line 602 on)
Growing == op = "realloc" /\ old_obj # NULL

\* the payload at new_data starts with the words the payload of object o had
\* in memory m0, and is zero after them
CopiedFrom(m0, o, new_data, new_size) ==
    \A i \in 0 .. (new_size \div PtrSize) - 1 :
        Load(heap, new_data + i * PtrSize) =
            IF i * PtrSize < Load(m0, o)
            THEN Load(m0, o + HeaderSize + i * PtrSize) ELSE 0

\* C13: a growing gc_realloc returns a new object of the new size at another
\* address, holding the old payload followed by zeros, and the old object
\* stays registered with its payload; when the allocation fails it returns
\* NULL and the old object stays as it was.
C13_GrowCopies ==
    Growing =>
        /\ pc # "crashed"
        /\ pc = "return" =>
              /\ old_obj \in Registered(heap, objects)
              /\ SamePayload(entry.heap, heap, old_obj)
              /\ result # NULL =>
                    /\ result # arg[1]
                    /\ result = ObjData(objects)
                    /\ allocation_count = entry.allocation_count + 1
                    /\ ObjSize(heap, objects) = AlignUp(arg[2])
                    /\ CopiedFrom(entry.heap, old_obj, result, ObjSize(heap, objects))

\* the registered object of the state at the call whose payload starts at p
ExactAtEntry(p) == {o \in Registered(entry.heap, entry.objects) : o + HeaderSize = p}

ReallocReturned == pc = "return" /\ op = "realloc"

\* C14: gc_realloc(ptr, new_size) with new_size > 0, ptr the payload start
\* of a registered object and the aligned new_size within that object's
\* size returns ptr and changes nothing; no collection runs.
C14_ShrinkInPlace ==
    (ReallocReturned /\ arg[2] > 0
     /\ \E o \in ExactAtEntry(arg[1]) : AlignUp(arg[2]) <= Load(entry.heap, o))
        => /\ result = arg[1]
           /\ GcState = entry
           /\ acquires = 0

\* C14 witness: such a call has returned, on an object with another object
\* and a collection behind it
C14_Witness ==
    /\ ReallocReturned
    /\ arg[2] > 0
    /\ \E o \in ExactAtEntry(arg[1]) : AlignUp(arg[2]) <= Load(entry.heap, o)
    /\ result = arg[1]
    /\ collection_count > 0

\* C15: gc_realloc(ptr, 0) with ptr not NULL returns NULL and leaves the
\* collector state as it was: the object at ptr stays registered with its
\* payload and heap_used does not go down.
C15_ResizeToZero ==
    (ReallocReturned /\ arg[1] # NULL /\ arg[2] = 0)
        => /\ result = NULL
           /\ GcState = entry
           /\ acquires = 0

\* C15 witness: gc_realloc(ptr, 0) has returned for the payload start of a
\* registered object, which is registered still
C15_Witness ==
    /\ ReallocReturned
    /\ arg[2] = 0
    /\ result = NULL
    /\ \E o \in ExactAtEntry(arg[1]) : o \in Registered(heap, objects) /\ Load(heap, o) > 0

\* C16: gc_realloc(NULL, n) for every n, and gc_realloc(p, n) with n > 0
\* and p not the payload start of a registered object (misaligned, interior),
\* return what gc_malloc(n) returns and leave the state it leaves; nothing
\* is copied.
C16_FallbackIsMalloc ==
    (CallEnded /\ op = "realloc"
     /\ (arg[1] = NULL \/ (arg[2] > 0 /\ ExactAtEntry(arg[1]) = {})))
        => /\ Outcome = MallocOutcome(entry, arg[2], ScannedStack(stack), registers)
           /\ old_obj = NULL

\* C16 witness: gc_realloc has returned a new object for the address of a
\* payload whose object had been swept before the call
C16_Witness ==
    /\ ReallocReturned
    /\ Cand(arg[1])
    /\ ExactAtEntry(arg[1]) = {}
    /\ result # NULL
    /\ entry.collection_count > 0
    /\ entry.allocation_count > 0

\* C17: gc_free(ptr) changes nothing, whatever ptr is: arena, registry,
\* free list, heap_used, mark flags and both counters are as they were.
C17_FreeIsNoOp ==
    (pc = "return" /\ op = "free") => GcState = entry

\* C17 witness: gc_free has returned for the payload start of a registered
\* object in a collector that has collected before
C17_Witness ==
    /\ pc = "return"
    /\ op = "free"
    /\ ExactAtEntry(arg[1]) # {}
    /\ collection_count > 0

\* C18: gc_force_collect runs one complete collection whatever heap_used is:
\* the state it returns with is the state at the call after one root scan,
\* mark and sweep, collection_count is one higher and allocation_count is
\* as it was.
C18_ForceCollectOnce ==
    /\ op = "force_collect" => pc \in {"mark", "sweep", "return"}
    /\ ForceCollectReturned =>
          /\ collection_count = entry.collection_count + 1
          /\ allocation_count = entry.allocation_count
          /\ GcState = GcCollect(entry, stack, registers)

\* C18 witness: gc_force_collect has returned from a call made with nothing
\* in use, after allocations
C18_Witness ==
    /\ ForceCollectReturned
    /\ entry.heap_used = 0
    /\ entry.allocation_count > 0
    /\ collection_count = entry.collection_count + 1

\* the collector state st is the one gc_init builds: nothing in use, no
\* object, counters zero, one free block over the whole arena
FreshState(st) ==
    /\ st.heap_used = 0
    /\ st.objects = NULL
    /\ st.collection_count = 0
    /\ st.allocation_count = 0
    /\ FreeBlocks(st.heap, st.free_list) = <<HeapBase>>
    /\ BlkSize(st.heap, HeapBase) = heap_size

\* C19: the first initialization leaves nothing in use, an empty registry,
\* zero counters and one free block covering the arena; gc_init on an
\* initialized collector, the one at the start of gc_malloc included,
\* changes nothing.
C19_InitIdempotent ==
    [][/\ (initialized = 0 /\ initialized' # 0) => FreshState(GcState')
       /\ initialized # 0 => gc_init(GcState) = GcState
       /\ (initialized # 0 /\ pc = "idle" /\ op' \in {"malloc", "calloc", "realloc"})
              => gcvars' = gcvars]_vars

\* C19 witness: a gc_malloc has begun on an initialized collector that holds
\* objects, and stands before its first acquisition with the state unchanged
C19_Witness ==
    /\ pc = "acquire"
    /\ op = "malloc"
    /\ acquires = 0
    /\ objects # NULL
    /\ GcState = entry
    /\ ~FreshState(GcState)

\* ------------------------------------------------- more roots, same heap
\* the invariants of C1, C2 and C6 on a collector state st
WellFormed(st) ==
    LET reg == Registry(st.heap, st.objects)
        blocks == FreeBlocks(st.heap, st.free_list)
    IN  /\ st.heap_used = SumSpans(st.heap, reg)
        /\ \A i, j \in 1 .. Len(reg) :
              i # j => Disjoint(ObjRange(st.heap, reg[i]), ObjRange(st.heap, reg[j]))
        /\ \A i \in 1 .. Len(reg), k \in 1 .. Len(blocks) :
              Disjoint(ObjRange(st.heap, reg[i]), BlkRange(st.heap, blocks[k]))
        /\ \A k \in 1 .. Len(blocks) - 1 : blocks[k] < blocks[k + 1]
        /\ \A j, k \in 1 .. Len(blocks) :
              blocks[j] + BlkSize(st.heap, blocks[j]) # blocks[k]

\* the root words tried on top of the ones a collection really found:
\* none, one word (a payload start or second payload word of an object
\* registered at the call, or a misaligned address), or one payload start
\* twice
ExtraWords ==
    LET was == Registered(entry.heap, entry.objects) IN
    {NULL, Unaligned}
    \cup {ObjData(o) : o \in was}
    \cup {ObjData(o) + PtrSize : o \in {x \in was : ObjSize(entry.heap, x) >= 2 * PtrSize}}

ExtraRoots == {<<>>} \cup {<<w>> : w \in ExtraWords} \cup {<<w, w>> : w \in ExtraWords}

\* C20: from the same heap, a collection with root words R and one with R
\* and more root words: every object the first keeps the second keeps, every
\* object reachable from R is kept by the second, and the state the second
\* leaves keeps the invariants of accounting, overlap and free-list order.
C20_MoreRootsKeepMore ==
    ForceCollectReturned =>
        \A extra \in ExtraRoots :
            LET more == GcCollect(entry, stack \o extra, registers) IN
            /\ Registered(heap, objects) \subseteq Registered(more.heap, more.objects)
            /\ Reach(entry.heap, entry.objects, RootWords)
                   \subseteq Registered(more.heap, more.objects)
            /\ \A o \in Registered(heap, objects) : SamePayload(heap, more.heap, o)
            /\ WellFormed(more)

\* C20 witness: a collection has returned that kept an object and swept
\* another which one more root word would have kept
C20_Witness ==
    /\ ForceCollectReturned
    /\ objects # NULL
    /\ \E w \in ExtraWords :
           LET more == GcCollect(entry, stack \o <<w>>, registers) IN
           Registered(more.heap, more.objects) # Registered(heap, objects)

\* ------------------------------------------------- the new object
\* n rounded up to a multiple of the alignment unit, as a number
RoundUp(n) == ((n + GC_ALIGNMENT - 1) \div GC_ALIGNMENT) * GC_ALIGNMENT

\* the collector state after the collections the call in progress has run
AfterCollections == CollectTimes(entry, CollectionsRun)

\* C21: a successful gc_malloc(n) registers one new object: its size is n
\* rounded up to a multiple of 8, its flag is clear, it is the head of the
\* registry in front of the objects that were there after the collections
\* of the call, heap_used is header size + that size above its value after
\* those collections, and allocation_count is one higher.
C21_NewObject ==
    (pc = "return" /\ op = "malloc" /\ result # NULL) =>
        /\ result = ObjData(objects)
        /\ ObjSize(heap, objects) = RoundUp(arg[1])
        /\ ObjMarked(heap, objects) = 0
        /\ Registry(heap, objects)
               = <<objects>> \o Registry(AfterCollections.heap, AfterCollections.objects)
        /\ heap_used = AfterCollections.heap_used + HeaderSize + RoundUp(arg[1])
        /\ allocation_count = entry.allocation_count + 1

\* -------------------------------------------------------- mark phase
Marked(m, head) == {o \in Registered(m, head) : ObjMarked(m, o) # 0}

\* C22: when the mark phase of a collection has ended, the marked objects
\* are exactly the least set holding every registered object whose payload
\* range contains an aligned in-arena root word, and with an object every
\* registered object whose payload range contains an aligned in-arena word
\* of its payload.
C22_MarkedIsClosure ==
    pc = "sweep" => Marked(heap, objects) = Reach(heap, objects, RootWords)

\* C22 witness: the mark phase has ended with an object marked that only a
\* payload word refers to, a misaligned address being among the root words
C22_Witness ==
    /\ pc = "sweep"
    /\ \E o \in Marked(heap, objects) :
           \A w \in RootWords : o \notin Targets(heap, {o}, w)
    /\ Unaligned \in RootWords

\* gc_mark_object and the loop of gc_mark_roots once more, keeping a record:
\* mc.heap is the arena, mc.scans the objects whose flag was set and whose
\* payload scan was begun, in that order
RECURSIVE MarkCounted(_, _, _), ScanCounted(_, _, _, _, _)
MarkCounted(mc, head, p) ==
    IF ~gc_is_pointer(p) THEN mc
    ELSE LET obj == gc_find_object_containing(mc.heap, head, p) IN
         IF obj = NULL THEN mc
         ELSE IF ObjMarked(mc.heap, obj) # 0 THEN mc
         ELSE ScanCounted([heap |-> Store(mc.heap, obj + PtrSize, 1),
                           scans |-> Append(mc.scans, obj)],
                          head, obj, 0, ObjSize(mc.heap, obj) \div PtrSize)

ScanCounted(mc, head, obj, i, word_count) ==
    IF i >= word_count THEN mc
    ELSE LET v == Load(mc.heap, ObjData(obj) + i * PtrSize) IN
         ScanCounted(IF gc_is_valid_pointer(v) THEN MarkCounted(mc, head, v) ELSE mc,
                     head, obj, i + 1, word_count)

RECURSIVE MarkRootsCounted(_, _, _, _)
MarkRootsCounted(mc, head, words, i) ==
    IF i > Len(words) THEN mc
    ELSE MarkRootsCounted(IF gc_is_valid_pointer(words[i])
                          THEN MarkCounted(mc, head, words[i]) ELSE mc,
                          head, words, i + 1)

\* memory m with the flag of every object of registry head clear, as the
\* mark phase finds it
RECURSIVE ClearMarks(_, _)
ClearMarks(m, reg) ==
    IF reg = <<>> THEN m ELSE ClearMarks(Store(m, Head(reg) + PtrSize, 0), Tail(reg))

\* the mark phase that has just ended, run again with the record
MarkRun ==
    MarkRootsCounted([heap |-> ClearMarks(heap, Registry(heap, objects)), scans |-> <<>>],
                     objects, ScannedStack(stack) \o registers, 1)

\* C23: the mark traversal ends on every object graph, cycles included: no
\* object has its flag set or its payload scanned twice in one mark phase,
\* so the scans are no more than the registered objects; the objects
\* scanned are the objects marked.
C23_MarkScansOnce ==
    pc = "sweep" =>
        /\ MarkRun.heap = heap
        /\ Cardinality(SeqToSet(MarkRun.scans)) = Len(MarkRun.scans)
        /\ Len(MarkRun.scans) <= Cardinality(Registered(heap, objects))
        /\ SeqToSet(MarkRun.scans) = Marked(heap, objects)

\* C23 witness: the mark phase has ended on a graph with a cycle through
\* two marked objects, or through one
C23_Witness ==
    /\ pc = "sweep"
    /\ \E o1, o2 \in Marked(heap, objects) :
           /\ \E a \in PayloadAddrs(heap, o1) : o2 \in Targets(heap, {o2}, Load(heap, a))
           /\ \E a \in PayloadAddrs(heap, o2) : o1 \in Targets(heap, {o1}, Load(heap, a))
    /\ Cardinality(Marked(heap, objects)) >= 2

\* ------------------------------------------------------- sweep phase
IsMarked(o) == ObjMarked(heap, o) # 0

\* the bytes of range r lie in one free block of collector state st
InFreeBlock(st, r) ==
    \E b \in SeqToSet(FreeBlocks(st.heap, st.free_list)) :
        b <= r.lo /\ r.hi <= b + BlkSize(st.heap, b)

\* C24: gc_sweep takes out of the registry exactly the objects whose flag is
\* clear, gives the header + payload span of each to the free list, lowers
\* heap_used by the sum of these spans, clears the flag of every survivor
\* and keeps the survivors in their order.
C24_SweepExact ==
    pc = "sweep" =>
        LET before == Registry(heap, objects)
            swept == gc_sweep(GcState)
            kept == SelectSeq(before, IsMarked)
            gone == SeqToSet(before) \ SeqToSet(kept)
        IN  /\ Registry(swept.heap, swept.objects) = kept
            /\ swept.heap_used = heap_used - (SumSpans(heap, before) - SumSpans(heap, kept))
            /\ \A o \in SeqToSet(kept) :
                  ObjMarked(swept.heap, o) = 0 /\ SamePayload(heap, swept.heap, o)
            /\ \A o \in gone : InFreeBlock(swept, ObjRange(heap, o))

\* C24 witness: a sweep is about to run over a registry whose first object
\* is marked and whose second is not
C24_Witness ==
    /\ pc = "sweep"
    /\ Len(Registry(heap, objects)) >= 2
    /\ IsMarked(Registry(heap, objects)[1])
    /\ ~IsMarked(Registry(heap, objects)[2])

\* --------------------------------------------------- the free list
\* the free list of memory m as a sequence of <<address, size>>
ListOf(m, fl) ==
    LET blocks == FreeBlocks(m, fl) IN
    [k \in 1 .. Len(blocks) |-> <<blocks[k], BlkSize(m, blocks[k])>>]

\* sequence q with its k-th element left out, or replaced by e
Without(q, k) == SubSeq(q, 1, k - 1) \o SubSeq(q, k + 1, Len(q))
ReplacedAt(q, k, e) == SubSeq(q, 1, k - 1) \o <<e>> \o SubSeq(q, k + 1, Len(q))

AboutToAcquire == pc \in {"acquire", "retry"}

\* C25: gc_alloc_from_freelist(size) takes the first (lowest) block of size
\* >= size; when that block's size is >= size + free-block header size +
\* alignment unit it returns the block's start and puts a block of the
\* remaining size at start + size in its place, otherwise it unlinks the
\* whole block; when no block is large enough it returns NULL and the list
\* stays as it is; the other blocks are as before in every case.
C25_FirstFit ==
    AboutToAcquire =>
        LET before == ListOf(heap, free_list)
            r == gc_alloc_from_freelist(heap, free_list, total_size)
            after == ListOf(r.heap, r.free_list)
            fits == {k \in 1 .. Len(before) : before[k][2] >= total_size}
        IN  IF fits = {}
            THEN r.ptr = NULL /\ r.heap = heap /\ r.free_list = free_list
            ELSE LET k == CHOOSE i \in fits : \A j \in fits : i <= j
                     start == before[k][1]
                     len == before[k][2]
                 IN  /\ r.ptr = start
                     /\ \A j \in fits : start <= before[j][1]
                     /\ after = IF len >= total_size + FreeHeaderSize + GC_ALIGNMENT
                                THEN ReplacedAt(before, k,
                                                <<start + total_size, len - total_size>>)
                                ELSE Without(before, k)

\* the block at b with len bytes is a storable one that lies inside the arena
ValidBlock(b, len) ==
    /\ len >= FreeHeaderSize
    /\ HeapBase <= b
    /\ b + len <= HeapEnd

\* C26: in every reachable state every block on the free list has a size of
\* at least the size of a free-block header and lies entirely inside the
\* arena.
C26_FreeBlocksValid ==
    \A k \in 1 .. Len(ListOf(heap, free_list)) :
        ValidBlock(ListOf(heap, free_list)[k][1], ListOf(heap, free_list)[k][2])

\* the collector state at line 441, after the sweep loop and before the
\* call of gc_coalesce_freelist
Swept == SweepFrom(GcState, NULL)

\* q, a sequence of <<start, length>>, ascends by address without overlap
Ascending(q) == \A k \in 1 .. Len(q) - 1 : q[k][1] + q[k][2] <= q[k + 1][1]

\* the arena bytes the blocks of q cover, and the sum of their lengths
Covered(q) == UNION {q[k][1] .. q[k][1] + q[k][2] - 1 : k \in 1 .. Len(q)}

RECURSIVE SumLens(_)
SumLens(q) == IF q = <<>> THEN 0 ELSE Head(q)[2] + SumLens(Tail(q))

Abutting(q) == {k \in 1 .. Len(q) - 1 : q[k][1] + q[k][2] = q[k + 1][1]}

\* C27: gc_coalesce_freelist, applied to an address-sorted list without
\* overlap, leaves no block whose end is the start of the next one (runs of
\* three or more become one block in the one pass), covers exactly the
\* bytes covered before with the same total, and keeps the ascending order.
C27_Coalesce ==
    pc = "sweep" =>
        LET before == ListOf(Swept.heap, Swept.free_list)
            after == ListOf(gc_coalesce_freelist(Swept.heap, Swept.free_list),
                            Swept.free_list)
        IN  Ascending(before) =>
                /\ Abutting(after) = {}
                /\ Ascending(after)
                /\ Len(after) = Len(before) - Cardinality(Abutting(before))
                /\ Covered(after) = Covered(before)
                /\ SumLens(after) = SumLens(before)

\* C27 witness: the sweep loop leaves three blocks in a row, each ending
\* where the next one starts, for the pass to merge.
C27_Witness ==
    /\ pc = "sweep"
    /\ Ascending(ListOf(Swept.heap, Swept.free_list))
    /\ \E k \in Abutting(ListOf(Swept.heap, Swept.free_list)) :
           k + 1 \in Abutting(ListOf(Swept.heap, Swept.free_list))

\* ------------------------------------------- gc_add_to_freelist alone
\* gc_add_to_freelist is static and gc_sweep, its one caller, passes spans
\* of at least a header; its branch for smaller spans is exercised by
\* calling it on its own, on free lists as the collector keeps them
\* (ascending, without overlap, every block storable and inside the arena)
\* and on spans that are not free.
MaxBlocks == 3
BlockSizes == {FreeHeaderSize, FreeHeaderSize + GC_ALIGNMENT, HeaderSize + FreeHeaderSize}
SpanSizes == {0, GC_ALIGNMENT, FreeHeaderSize, HeaderSize}
Filler == {0, WordMax - 1}

WordAddrs == {HeapBase + PtrSize * i : i \in 0 .. HeapWords - 1}

Blocks == {e \in WordAddrs \X BlockSizes : e[1] + e[2] <= HeapBase + GC_HEAP_SIZE}

Layouts ==
    {q \in UNION {[1 .. n -> Blocks] : n \in 0 .. MaxBlocks} : Ascending(q)}

\* the arena holding the free list q, every other word being f
HeapOf(q, f) ==
    [i \in 0 .. HeapWords - 1 |->
        IF \E k \in 1 .. Len(q) : Idx(q[k][1]) = i
        THEN (CHOOSE e \in SeqToSet(q) : Idx(e[1]) = i)[2]
        ELSE IF \E k \in 1 .. Len(q) : Idx(q[k][1]) + 1 = i
        THEN LET k == CHOOSE j \in 1 .. Len(q) : Idx(q[j][1]) + 1 = i
             IN  IF k < Len(q) THEN q[k + 1][1] ELSE NULL
        ELSE f]

HeadOf(q) == IF q = <<>> THEN NULL ELSE q[1][1]

\* the span of sz bytes at p lies in the arena and touches no block of q
SpanOutside(q, p, sz) ==
    /\ p + sz <= HeapEnd
    /\ \A k \in 1 .. Len(q) : p + sz <= q[k][1] \/ q[k][1] + q[k][2] <= p

ReleaseInit ==
    /\ \E q \in Layouts, f \in Filler :
           /\ heap = HeapOf(q, f)
           /\ free_list = HeadOf(q)
           /\ \E p \in WordAddrs, sz \in SpanSizes :
                  /\ SpanOutside(q, p, sz)
                  /\ arg = <<p, sz>>
    /\ heap_used = 0
    /\ objects = NULL
    /\ initialized = 1
    /\ collection_count = 0
    /\ allocation_count = 0
    /\ stack = NoRoots(StackWords)
    /\ registers = NoRoots(RegWords)
    /\ pc = "release"
    /\ op = "release"
    /\ size = 0
    /\ total_size = 0
    /\ ptr = NULL
    /\ resume = "none"
    /\ old_obj = NULL
    /\ acquires = 0
    /\ entry = NoEntry
    /\ result = NULL

\* lines 302-323, one call
Release ==
    /\ pc = "release"
    /\ LET r == gc_add_to_freelist(heap, free_list, arg[1], arg[2])
       IN  heap' = r.heap /\ free_list' = r.free_list
    /\ entry' = GcState
    /\ pc' = "released"
    /\ UNCHANGED <<heap_used, objects, initialized, collection_count,
                   allocation_count, rootvars, op, arg, size, total_size, ptr,
                   resume, old_obj, acquires, result>>

ReleaseNext == Release

ReleaseSpec == ReleaseInit /\ [][ReleaseNext]_vars

\* q with the block e put where the addresses keep ascending
InsertSorted(q, e) ==
    LET k == Cardinality({j \in 1 .. Len(q) : q[j][1] < e[1]})
    IN  SubSeq(q, 1, k) \o <<e>> \o SubSeq(q, k + 1, Len(q))

\* the words a release of the span at p may write: the span's two header
\* words and the link of the block in front of it
ReleaseWrites(q, p) ==
    {Idx(p), Idx(p) + 1} \cup {Idx(e[1]) + 1 : e \in {e \in SeqToSet(q) : e[1] < p}}

\* C28: gc_add_to_freelist(ptr, size) with size below the size of a
\* free-block header changes neither the free list nor any word of memory;
\* with a larger size it puts the one block {ptr, size} where the list keeps
\* ascending by address, and every other block stays as it was.
C28_Release ==
    pc = "released" =>
        LET before == ListOf(entry.heap, entry.free_list)
            after == ListOf(heap, free_list)
        IN  IF arg[2] < FreeHeaderSize
            THEN heap = entry.heap /\ free_list = entry.free_list
            ELSE /\ after = InsertSorted(before, <<arg[1], arg[2]>>)
                 /\ Ascending(after)
                 /\ \A i \in 0 .. HeapWords - 1 :
                        i \notin ReleaseWrites(before, arg[1])
                            => heap[i] = entry.heap[i]

\* C28 witness: a span of one word, too small to store, was released next
\* to a list that holds blocks.
C28_Witness ==
    /\ pc = "released"
    /\ arg[2] = GC_ALIGNMENT
    /\ entry.free_list # NULL

\* a storable span was released between two blocks of the list
C28_Inserted ==
    /\ pc = "released"
    /\ arg[2] >= FreeHeaderSize
    /\ \E k \in 2 .. Len(ListOf(heap, free_list)) - 1 :
           ListOf(heap, free_list)[k] = <<arg[1], arg[2]>>

\* ------------------------------------------ gc_find_object_containing
\* the addresses looked up: the first, second and last byte of every word of
\* the arena and of the word to either side of it, NULL and the highest
\* address
ProbeAddrs ==
    {HeapBase + PtrSize * i + d : i \in -1 .. HeapWords, d \in {0, 1, PtrSize - 1}}
        \cup {NULL, WordMax - 1}

\* the objects of reg whose payload range [data, data + size) holds a
Holders(reg, a) ==
    {o \in reg : ObjData(o) <= a /\ a < ObjData(o) + ObjSize(heap, o)}

\* the objects the collection of the call in progress took off the registry
SweptNow ==
    IF op = "force_collect" /\ pc = "return"
    THEN Registered(entry.heap, entry.objects) \ Registered(heap, objects)
    ELSE {}

\* a is an address for which no object is to be found: outside the arena,
\* in a registered object's header, one past the end of a payload, in a
\* free block, or in the span of an object just swept
NoneExpected(reg, blocks, swept, a) ==
    \/ a < HeapBase \/ a >= HeapEnd
    \/ \E o \in reg :
           \/ o <= a /\ a < ObjData(o)
           \/ a = ObjData(o) + ObjSize(heap, o)
    \/ \E b \in blocks : b <= a /\ a < b + BlkSize(heap, b)
    \/ \E o \in swept : o <= a /\ a < ObjData(o) + ObjSize(entry.heap, o)

\* C29: for every address a, gc_find_object_containing(a) is a registered
\* object exactly when a lies in that object's payload range, and there is
\* at most one such object; it is NULL for an address outside the arena, in
\* an object's header, one past the end of a payload, in a free block, or
\* in the span of an object that was swept.
C29_FindContaining ==
    pc # "crashed" =>
        LET reg == Registered(heap, objects)
            blocks == SeqToSet(FreeBlocks(heap, free_list))
            swept == SweptNow
        IN  \A a \in ProbeAddrs :
                LET found == gc_find_object_containing(heap, objects, a)
                    holders == Holders(reg, a)
                IN  /\ Cardinality(holders) <= 1
                    /\ IF holders = {} THEN found = NULL ELSE found \in holders
                    /\ NoneExpected(reg, blocks, swept, a) => found = NULL

\* C29 witness: after a forced collection that swept an object a survivor
\* with a payload of two words or more is registered and a free block
\* exists, so that interior, header, one-past-the-end, free and swept
\* addresses are all looked up.
C29_Witness ==
    /\ SweptNow # {}
    /\ free_list # NULL
    /\ \E o \in Registered(heap, objects) : ObjSize(heap, o) >= 2 * PtrSize

\* ------------------------------------------------- the candidate test
\* the word values tried: the addresses looked up above and the middle of
\* every arena word
ProbeValues ==
    ProbeAddrs \cup {HeapBase + PtrSize * i + PtrSize \div 2 : i \in 0 .. HeapWords - 1}

\* the registered objects into whose payload v points, past its start
Interior(v) ==
    {o \in Registered(heap, objects) :
        ObjData(o) < v /\ v < ObjData(o) + ObjSize(heap, o)}

\* the mark phase with v as the one stack word, as the one register word,
\* and as the first payload word of the object o that the one stack word
\* points to
FromStack(v) == gc_mark_roots(heap, objects, <<v>>, NoRoots(RegWords))
FromRegister(v) == gc_mark_roots(heap, objects, NoRoots(StackWords), <<v>>)
FromPayload(o, v) ==
    gc_mark_roots(Store(heap, ObjData(o), v), objects, <<ObjData(o)>>, NoRoots(RegWords))

\* C30: a word value from the stack, the register snapshot or a payload is
\* passed to gc_mark_object exactly when it is a multiple of the pointer
\* size and lies in [heap, heap + heap_size); a value that is unaligned or
\* outside the arena marks nothing, and an aligned value that points past
\* the start of a payload marks the object around it.
C30_Candidates ==
    (pc = "mark" /\ initialized # 0) =>
        LET holders == {o \in Registered(heap, objects) : ObjSize(heap, o) >= PtrSize}
        IN  \A v \in ProbeValues :
                /\ gc_is_valid_pointer(v) <=> Cand(v)
                /\ ~Cand(v) =>
                       /\ FromStack(v) = heap
                       /\ FromRegister(v) = heap
                       /\ \A o \in holders :
                              Marked(FromPayload(o, v), objects)
                                  = Marked(FromPayload(o, NULL), objects)
                /\ Cand(v) =>
                       \A o \in Interior(v) :
                           /\ o \in Marked(FromStack(v), objects)
                           /\ o \in Marked(FromRegister(v), objects)
                           /\ \A h \in holders : o \in Marked(FromPayload(h, v), objects)

\* C30 witness: a mark phase has ended in which one root word was an
\* unaligned address inside the payload of an object that stayed unmarked
\* and another was an aligned address past the start of the payload of an
\* object that is marked.
C30_Witness ==
    /\ pc = "sweep"
    /\ \E o \in Registered(heap, objects), w \in RootWords :
           /\ ~IsMarked(o)
           /\ w % PtrSize # 0
           /\ ObjData(o) <= w /\ w < ObjData(o) + ObjSize(heap, o)
    /\ \E o \in Registered(heap, objects), w \in RootWords :
           /\ IsMarked(o)
           /\ w % PtrSize = 0
           /\ ObjData(o) < w /\ w < ObjData(o) + ObjSize(heap, o)

\* ------------------------------------------------------ full recovery
\* C31: when gc_force_collect runs with no registered object reachable
\* from a root, afterwards the registry is empty, heap_used is 0 and the
\* free list is one block that covers the whole arena.
C31_FullRecovery ==
    (ForceCollectReturned /\ Reach(entry.heap, entry.objects, RootWords) = {}) =>
        /\ objects = NULL
        /\ heap_used = 0
        /\ ListOf(heap, free_list) = <<(<<HeapBase, heap_size>>)>>

\* ------------------------------------------- payload starts as roots
\* C32: for every registered object, whatever size it was allocated with,
\* gc_find_object_containing of its payload address is that object, and an
\* object whose payload address is in a root word when gc_force_collect
\* runs is still registered afterwards.
C32_PayloadStartFound ==
    pc # "crashed" =>
        /\ \A o \in Registered(heap, objects) :
               gc_find_object_containing(heap, objects, ObjData(o)) = o
        /\ ForceCollectReturned =>
               \A o \in Registered(entry.heap, entry.objects) :
                   ObjData(o) \in RootWords => o \in Registered(heap, objects)

\* ------------------------------------------------ the full size range
\* a direct call of gc_malloc has ended, by returning or by a fault
MallocEnded == op = "malloc" /\ CallEnded

\* C33: a gc_malloc(n) that succeeds, for any n of the machine word, has
\* registered an object whose recorded size is at least n, and for an n
\* above the arena size the call returns NULL; this includes the n within 7
\* of 2^w, whose rounding is computed modulo 2^w.
C33_FullRange ==
    MallocEnded =>
        /\ (pc = "return" /\ result # NULL) => ObjSize(heap, objects) >= arg[1]
        /\ arg[1] > heap_size => (pc = "return" /\ result = NULL)

\* ------------------------------------------- the old object of a resize
\* C34: during a growing gc_realloc(ptr, new_size) the old object is in the
\* registry with the payload it had when the call began, at every step up
\* to and including the copy into the new object, also when the gc_malloc
\* inside runs one or two collections; the copy never reads a span that was
\* freed or handed out again.
C34_OldObjectKept ==
    Growing =>
        /\ old_obj \in Registered(heap, objects)
        /\ ObjSize(heap, old_obj) = ObjSize(entry.heap, old_obj)
        /\ SamePayload(entry.heap, heap, old_obj)
        /\ ~InFreeBlock(GcState, ObjRange(entry.heap, old_obj))
        /\ pc = "copy" => Disjoint(ObjRange(entry.heap, old_obj), ObjRange(heap, ptr))

\* ------------------------------------------------ the larger arena
\* A resize whose copy overruns the new payload into a neighbour takes
\* five objects and a sixth allocation, more than the arena of HeapWords
\* words holds below its threshold.  The same collector is therefore also
\* run on a mapping of BigWords words, from the state gc_init leaves, with
\* the calls that lead there and one that follows: gc_malloc of the two
\* smallest sizes, gc_realloc of a payload start to one byte, and
\* gc_force_collect.
BigSizes == {0, GC_ALIGNMENT}
BigReallocSize == 1

BigInit ==
    /\ heap = Store(Store([i \in 0 .. BigWords - 1 |-> 0], HeapBase, PtrSize * BigWords),
                    HeapBase + PtrSize, NULL)
    /\ heap_used = 0
    /\ objects = NULL
    /\ free_list = HeapBase
    /\ initialized = 1
    /\ collection_count = 0
    /\ allocation_count = 0
    /\ stack = NoRoots(StackWords)
    /\ registers = NoRoots(RegWords)
    /\ pc = "idle"
    /\ op = "none"
    /\ arg = <<>>
    /\ size = 0
    /\ total_size = 0
    /\ ptr = NULL
    /\ resume = "none"
    /\ old_obj = NULL
    /\ acquires = 0
    /\ entry = NoEntry
    /\ result = NULL

\* The loops of a collection come to an end inside the mapping: the
\* registry and the free list are chains of distinct headers inside the
\* arena that end with NULL and share no header, and the payload of every object a mark phase
\* may scan (lines 222-233: one whose flag is clear) lies inside the arena.
\* A collection begun in any other state reads outside the mapping or
\* does not end; the calls explored are the ones made when this holds.
Traversable ==
    LET reg == Registry(heap, objects)
        blocks == FreeBlocks(heap, free_list)
    IN  /\ IF reg = <<>> THEN objects = NULL
           ELSE ObjNext(heap, reg[Len(reg)]) = NULL
        /\ Cardinality({reg[i] : i \in 1 .. Len(reg)}) = Len(reg)
        /\ IF blocks = <<>> THEN free_list = NULL
           ELSE BlkNext(heap, blocks[Len(blocks)]) = NULL
        /\ Cardinality({blocks[k] : k \in 1 .. Len(blocks)}) = Len(blocks)
        /\ \A i \in 1 .. Len(reg), k \in 1 .. Len(blocks) : reg[i] # blocks[k]
        /\ \A i \in 1 .. Len(reg) :
               ObjMarked(heap, reg[i]) = 0 =>
                   ObjData(reg[i]) + ObjSize(heap, reg[i]) <= HeapEnd

BigNext ==
    \/ \E n \in BigSizes : gc_malloc(n)
    \/ \E o \in Registered(heap, objects) : gc_realloc(ObjData(o), BigReallocSize)
    \/ Traversable /\ gc_force_collect
    \/ GcMark
    \/ GcSweep
    \/ MallocAcquire
    \/ ReallocCopy
    \/ Return

BigSpec == BigInit /\ [][BigNext]_vars

\* ------------------------------------------------- objects stay put
\* the objects that were registered when the call in progress began and
\* are registered now: those of the registry now, the object the call
\* itself allocated (the head, lines 545-546) left out
Survivors ==
    LET reg == Registry(heap, objects)
        old == IF allocation_count > entry.allocation_count THEN Tail(reg) ELSE reg
    IN  SeqToSet(old) \cap Registered(entry.heap, entry.objects)

\* C35: an object registered before and after a call of gc_malloc,
\* gc_calloc, gc_realloc, gc_free or gc_force_collect has the same header
\* and payload address, the same recorded size and the same payload after
\* the call as before it, and its flag is clear again.
C35_ObjectsStayPut ==
    (pc = "return" /\ op # "none") =>
        \A o \in Survivors :
            /\ ObjSize(heap, o) = ObjSize(entry.heap, o)
            /\ SamePayload(entry.heap, heap, o)
            /\ ObjMarked(heap, o) = 0

\* ------------------------------------------- alignment and containment
\* a multiple of the alignment unit (GC_ALIGNMENT, line 16)
OnUnit(n) == n % GC_ALIGNMENT = 0

\* the header addresses the registry names: its head and the next link of
\* every header of the chain; likewise the free list
LinkedObjects ==
    ({objects} \cup {ObjNext(heap, o) : o \in Registered(heap, objects)}) \ {NULL}
LinkedBlocks ==
    LET blocks == FreeBlocks(heap, free_list) IN
    ({free_list} \cup {BlkNext(heap, blocks[k]) : k \in 1 .. Len(blocks)}) \ {NULL}

\* header o with its recorded size: header and payload on the unit, the
\* size a multiple of it, the span [o, payload + size) inside the arena
ObjectInPlace(m, o) ==
    /\ OnUnit(o)
    /\ OnUnit(ObjData(o))
    /\ Readable(o, HeaderSize)
    /\ OnUnit(ObjSize(m, o))
    /\ ObjData(o) + ObjSize(m, o) <= HeapEnd

\* C36: in every reachable state every registered object's header address
\* and payload address are multiples of 8, its recorded size is a multiple
\* of 8, its span from the header to the end of the payload lies inside
\* the arena, and every free block's address and size are multiples of 8,
\* so that every payload address passes the alignment test of
\* gc_is_valid_pointer.
C36_AlignedInside ==
    /\ \A o \in LinkedObjects :
           ObjectInPlace(heap, o) /\ ObjData(o) % PtrSize = 0
    /\ \A b \in LinkedBlocks :
           OnUnit(b) /\ (Readable(b, FreeHeaderSize) => OnUnit(BlkSize(heap, b)))

====
